---- MODULE Spec2Model ----
(***************************************************************************)
(* Model of the ADCS sun-sensor application (Stayzie-R/ADCS):              *)
(*   photoresistor.py  PhotoresistorValidator registry, Photoresistor      *)
(*   sun_sensor.py     SunSensor acquisition loop and estimators           *)
(*   adcs.py           ADCS supervisor threads and the stop event          *)
(*   config.py         shipped configuration                               *)
(*                                                                         *)
(* Numbers.  A normalized value raw/4095.0 is kept as the integer raw      *)
(* (unit 1/4095), so the constructor's -1 is -FullScale.  A voltage        *)
(* value*1.8 is kept in units of 1/(10*4095) V, so raw*18, and the         *)
(* constructor's -1 V is -(10*FullScale).  A light vector v/||v|| is kept  *)
(* as the integer vector v with the squared norm n2 it was divided by:     *)
(* its components are v[i]/sqrt(n2); n2 = 0 is numpy's 0/0 = NaN.          *)
(***************************************************************************)
EXTENDS Integers, Sequences, FiniteSets, TLC

VARIABLES
    used_channels,    \* PhotoresistorValidator._used_channels
    used_vectors,     \* PhotoresistorValidator._used_vectors
    used_collors,     \* PhotoresistorValidator._used_collors
    photoresistors,   \* the Photoresistor objects constructed so far (SunSensor.photoresistors)
    last_call,        \* the last registry call made and how it ended
    unregister_history, \* history: "none", or whether an unregister call named a channel or
                      \* vector of a Photoresistor object that exists ("in_use") or not ("unused")
    light_vector,     \* SunSensor.light_vector
    stop_event,       \* ADCS.stop_event (threading.Event)
    print_plot_app,   \* config.plot_app["PRINT_PLOT_APP"]
    runPc,            \* position of SunSensor.run
    data,             \* the request body built by transmit_vec_to_plot_app, until it is posted
    shutdown_posts,   \* number of shutdown requests sent (calls of requests.post)
    mainPc,           \* position of ADCS.run (main thread)
    run_exit,         \* how ADCS.run left its try block
    adsPc,            \* position of ADCS.attitude_determination_system (ads_thread)
    threads,          \* state of each sensor thread (target safe_run)
    read_interval,    \* SunSensor.read_interval
    last_read,        \* outcomes of the reads just made: {} or records [i, ok, raw]
    sun_vector,       \* what the last call of calc_light_vector_by_max_values returned
    sensor_stop_event, \* SunSensor.stop_event: "event" (the ADCS Event) or "None"
    last_construct,   \* the last call of SunSensor._initialize_photoresistors and how it ended
    callers           \* threads that call PhotoresistorValidator.validate concurrently:
                      \* position and arguments of each

vars == <<used_channels, used_vectors, used_collors, photoresistors, last_call,
          unregister_history, light_vector, stop_event, print_plot_app, runPc,
          data, shutdown_posts, mainPc, run_exit, adsPc, threads, read_interval,
          last_read, sun_vector, callers, sensor_stop_event,
          last_construct>>

validatorVars == <<used_channels, used_vectors, used_collors, last_call, unregister_history>>

\* what no step of the running application changes
idleVars == <<validatorVars, read_interval, sun_vector, callers, sensor_stop_event,
              last_construct>>

----------------------------------------------------------------------------
(* Bounds of the model *)

\* entries of ADCS.sensors besides "sun_sensor" (the supervisor iterates over the dict)
NumOtherSensors == 1
\* Photoresistor objects the registry exploration constructs at most
MaxObjects == 2
\* sensors whose read fails in one tick, at most
MaxFailedReads == 1
\* threads that construct a Photoresistor at the same time
NumCallers == 2
\* entries of the sensor list given to a SunSensor, at most
MaxSetSize == 2

(* Program constants *)

FullScale == 4095
RefVoltageTenths == 18
\* read_interval = None is kept as this number
NoInterval == -1

----------------------------------------------------------------------------
(* config.py *)

ALLOWED_NAMES == {"AIN0", "AIN1", "AIN2", "AIN3", "AIN4", "AIN5", "AIN6"}

SENSORS ==
    << [pin_key |-> "AIN2", color |-> "orange", vector |-> <<0, 0, 1>>],
       [pin_key |-> "AIN0", color |-> "white",  vector |-> <<1, 0, 0>>],
       [pin_key |-> "AIN1", color |-> "green",  vector |-> <<0, -1, 0>>],
       [pin_key |-> "AIN5", color |-> "yellow", vector |-> <<0, 1, 0>>],
       [pin_key |-> "AIN3", color |-> "brown",  vector |-> <<-1, 0, 0>>] >>

PRINT_PLOT_APP == TRUE
READ_INTERVAL == 1

\* int(name[3:])
ChannelOf(name) ==
    CASE name = "AIN0" -> 0 [] name = "AIN1" -> 1 [] name = "AIN2" -> 2
      [] name = "AIN3" -> 3 [] name = "AIN4" -> 4 [] name = "AIN5" -> 5
      [] name = "AIN6" -> 6 [] OTHER -> 7

\* the attributes Photoresistor.__init__ sets after validation
NewSensor(name, color, vector) ==
    [channel |-> ChannelOf(name), color |-> color, vector |-> vector,
     value |-> -FullScale, value_voltage |-> -(10 * FullScale)]

NoCall == [op |-> "none", name |-> "", vector |-> <<0, 0, 0>>, color |-> "", raised |-> FALSE]

None == [kind |-> "None", v |-> <<0, 0, 0>>, n2 |-> 0]
\* _initialize_photoresistors has not been called
NoConstruct == [sensors |-> << >>, raised |-> FALSE, built |-> 0]
\* calc_light_vector_by_max_values has not been called
NoResult == [raised |-> FALSE, vector |-> None]
NoData == [kind |-> "None", light_vector |-> None, sensors |-> << >>]

----------------------------------------------------------------------------
(* photoresistor.py: PhotoresistorValidator *)

\* a falsy colour ("" or None) is what `if color:` skips
Falsy(color) == color = ""

\* mutant: the channel is registered as soon as its own checks pass
ValidateRegistersEarly(name, vector, color) ==
    IF name \notin ALLOWED_NAMES \/ name \in used_channels
    THEN [raised |-> TRUE, channels |-> used_channels,
          vectors |-> used_vectors, collors |-> used_collors]
    ELSE IF vector \in used_vectors \/ color \in used_collors
    THEN [raised |-> TRUE, channels |-> used_channels \cup {name},
          vectors |-> used_vectors, collors |-> used_collors]
    ELSE [raised |-> FALSE, channels |-> used_channels \cup {name},
          vectors |-> used_vectors \cup {vector},
          collors |-> IF Falsy(color) THEN used_collors ELSE used_collors \cup {color}]

\* mutant: the mount vector is not checked
ValidateSkipsVectorCheck(name, vector, color) ==
    IF \/ name \notin ALLOWED_NAMES
       \/ name \in used_channels
       \/ color \in used_collors
    THEN [raised |-> TRUE, channels |-> used_channels,
          vectors |-> used_vectors, collors |-> used_collors]
    ELSE [raised |-> FALSE, channels |-> used_channels \cup {name},
          vectors |-> used_vectors \cup {vector},
          collors |-> IF Falsy(color) THEN used_collors ELSE used_collors \cup {color}]

\* PhotoresistorValidator.validate: the four checks, then the three adds
ValidateResult(name, vector, color) ==
    IF \/ name \notin ALLOWED_NAMES
       \/ name \in used_channels
       \/ vector \in used_vectors
       \/ color \in used_collors
    THEN [raised |-> TRUE, channels |-> used_channels,
          vectors |-> used_vectors, collors |-> used_collors]
    ELSE [raised |-> FALSE, channels |-> used_channels \cup {name},
          vectors |-> used_vectors \cup {vector},
          collors |-> IF Falsy(color) THEN used_collors ELSE used_collors \cup {color}]

\* mutant: set.remove semantics, an absent entry raises KeyError
UnregisterRemove(reg, name, vector, color) ==
    IF name \in reg.channels /\ vector \in reg.vectors /\ color \in reg.collors
    THEN [raised |-> FALSE, channels |-> reg.channels \ {name},
          vectors |-> reg.vectors \ {vector}, collors |-> reg.collors \ {color}]
    ELSE [raised |-> TRUE, channels |-> reg.channels,
          vectors |-> reg.vectors, collors |-> reg.collors]

\* PhotoresistorValidator.unregister on a registry reg: three set.discard calls
UnregisterResult(reg, name, vector, color) ==
    [raised |-> FALSE, channels |-> reg.channels \ {name},
     vectors |-> reg.vectors \ {vector}, collors |-> reg.collors \ {color}]

Registry == [channels |-> used_channels, vectors |-> used_vectors, collors |-> used_collors]

\* inputs of the registry exploration
Names == {"AIN0", "AIN1", "AIN7"}
Vectors == {<<1, 0, 0>>, <<-1, 0, 0>>}
Colors == {"", "white"}

\* a direct call of PhotoresistorValidator.validate
Validate(name, vector, color) ==
    LET r == ValidateResult(name, vector, color) IN
    /\ used_channels' = r.channels
    /\ used_vectors' = r.vectors
    /\ used_collors' = r.collors
    /\ last_call' = [op |-> "validate", name |-> name, vector |-> vector,
                     color |-> color, raised |-> r.raised]
    /\ UNCHANGED <<photoresistors, unregister_history>>

\* Photoresistor.__init__: validate, then the attributes
NewPhotoresistor(name, color, vector) ==
    LET r == ValidateResult(name, vector, color) IN
    /\ Len(photoresistors) < MaxObjects
    /\ used_channels' = r.channels
    /\ used_vectors' = r.vectors
    /\ used_collors' = r.collors
    /\ last_call' = [op |-> "Photoresistor", name |-> name, vector |-> vector,
                     color |-> color, raised |-> r.raised]
    /\ photoresistors' = IF r.raised THEN photoresistors
                         ELSE Append(photoresistors, NewSensor(name, color, vector))
    /\ UNCHANGED unregister_history

\* a call of PhotoresistorValidator.unregister
Unregister(name, vector, color) ==
    LET r == UnregisterResult(Registry, name, vector, color) IN
    /\ used_channels' = r.channels
    /\ used_vectors' = r.vectors
    /\ used_collors' = r.collors
    /\ last_call' = [op |-> "unregister", name |-> name, vector |-> vector,
                     color |-> color, raised |-> r.raised]
    /\ unregister_history' =
         IF \/ unregister_history = "in_use"
            \/ \E i \in 1..Len(photoresistors) :
                  \/ photoresistors[i].channel = ChannelOf(name)
                  \/ photoresistors[i].vector = vector
         THEN "in_use" ELSE "unused"
    /\ UNCHANGED photoresistors

\* module load: empty registry, nothing constructed, nothing running
InitValidator ==
    /\ used_channels = {}
    /\ used_vectors = {}
    /\ used_collors = {}
    /\ photoresistors = << >>
    /\ last_call = NoCall
    /\ unregister_history = "none"
    /\ light_vector = None
    /\ stop_event = FALSE
    /\ print_plot_app = PRINT_PLOT_APP
    /\ runPc = "idle"
    /\ data = NoData
    /\ shutdown_posts = 0
    /\ mainPc = "idle"
    /\ run_exit = "none"
    /\ adsPc = "unstarted"
    /\ threads = << >>
    /\ read_interval = READ_INTERVAL
    /\ last_read = {}
    /\ sun_vector = NoResult
    /\ callers = << >>
    /\ last_construct = NoConstruct
    /\ sensor_stop_event = "event"

otherVars == <<light_vector, stop_event, print_plot_app, runPc, data,
               shutdown_posts, mainPc, run_exit, adsPc, threads, read_interval,
               last_read, sun_vector, callers, sensor_stop_event,
          last_construct>>

ValidateCall ==
    /\ \E name \in Names, vector \in Vectors, color \in Colors :
          Validate(name, vector, color)
    /\ UNCHANGED otherVars

PhotoresistorInit ==
    /\ \E name \in Names, vector \in Vectors, color \in Colors :
          NewPhotoresistor(name, color, vector)
    /\ UNCHANGED otherVars

UnregisterCall ==
    /\ \E name \in Names, vector \in Vectors, color \in Colors :
          Unregister(name, vector, color)
    /\ UNCHANGED otherVars

NextValidator ==
    \/ ValidateCall
    \/ PhotoresistorInit
    \/ UnregisterCall

SpecValidator == InitValidator /\ [][NextValidator]_vars

----------------------------------------------------------------------------
(* photoresistor.py: Photoresistor.read_sensor_value *)

\* what one read of the ADC file gives: an integer code, or a failure
\* (FileNotFoundError, ValueError or any other exception)
RawCodes == {0, FullScale}
ReadOutcomes == {[ok |-> TRUE, raw |-> r] : r \in RawCodes} \cup {[ok |-> FALSE, raw |-> 0]}

\* what the reads of one tick give, one outcome per photoresistor
Snapshots(n) ==
    {f \in [1..n -> ReadOutcomes] :
        Cardinality({i \in 1..n : ~f[i].ok}) <= MaxFailedReads}

\* the reads of one tick as records
ReadRecords(snapshot) ==
    {[i |-> i, ok |-> snapshot[i].ok, raw |-> snapshot[i].raw] : i \in DOMAIN snapshot}

\* mutant: a failed read puts the constructor's defaults back
ReadSensorValueResetsOnFailure(p, outcome) ==
    IF ~outcome.ok THEN [p EXCEPT !.value = -FullScale, !.value_voltage = -(10 * FullScale)]
    ELSE [p EXCEPT !.value = outcome.raw, !.value_voltage = outcome.raw * RefVoltageTenths]

\* read_sensor_value: value = raw / 4095.0, voltage = value * 1.8; a failure
\* is logged and leaves both attributes as they were
ReadSensorValue(p, outcome) ==
    IF ~outcome.ok THEN p
    ELSE [p EXCEPT !.value = outcome.raw, !.value_voltage = outcome.raw * RefVoltageTenths]

\* int(f.read().strip()) accepts any integer the file holds, also one
\* outside the converter's range
RawInputs == {-1, 0, FullScale, FullScale + 1}
ReadInputs == {[ok |-> TRUE, raw |-> r] : r \in RawInputs} \cup {[ok |-> FALSE, raw |-> 0]}

----------------------------------------------------------------------------
(* sun_sensor.py: SunSensor *)

\* mutant: a failed read ends read_sensors_value, the sensors after it are not read
ReadSensorsValueStopsAtFailure(ps, snapshot) ==
    [i \in 1..Len(ps) |->
        IF \E j \in 1..i : ~snapshot[j].ok THEN ps[i]
        ELSE ReadSensorValue(ps[i], snapshot[i])]

\* SunSensor.read_sensors_value: every photoresistor reads, in list order
ReadSensorsValue(ps, snapshot) ==
    [i \in 1..Len(ps) |-> ReadSensorValue(ps[i], snapshot[i])]

MaxOf(S) == CHOOSE m \in S : \A x \in S : x <= m

\* max(sensor.value for sensor in self.photoresistors)
MaxValue(ps) == MaxOf({ps[i].value : i \in 1..Len(ps)})

Neg(v) == <<-v[1], -v[2], -v[3]>>
T_matrix == << <<1, 0, 0>>, <<0, 1, 0>>, <<0, 0, 1>> >>

\* the value the inner loop leaves for a direction: that of the last sensor
\* mounted in it, 0 when there is none
ValueAt(ps, vector) ==
    LET hits == {i \in 1..Len(ps) : ps[i].vector = vector} IN
    IF hits = {} THEN 0 ELSE ps[MaxOf(hits)].value

\* mutant: the difference is taken as a sum
SubtractValuesAdds(ps) ==
    [i \in 1..3 |-> ValueAt(ps, T_matrix[i]) + ValueAt(ps, Neg(T_matrix[i]))]

\* subtract_values[i] = value_pos - value_neg
SubtractValues(ps) ==
    [i \in 1..3 |-> ValueAt(ps, T_matrix[i]) - ValueAt(ps, Neg(T_matrix[i]))]

NormSq(v) == v[1] * v[1] + v[2] * v[2] + v[3] * v[3]

\* v / np.linalg.norm(v): no guard, a zero norm gives NaN components
Normalize(v) == [kind |-> "array", v |-> v, n2 |-> NormSq(v)]

IsNaN(lv) == lv.kind = "array" /\ lv.n2 = 0
IsUnit(lv) == lv.kind = "array" /\ lv.n2 > 0 /\ NormSq(lv.v) = lv.n2
ZeroVector == [kind |-> "array", v |-> <<0, 0, 0>>, n2 |-> 1]

\* mutant: calc_light_vector without the check of the largest value
CalcLightVectorNoGuard(ps, lv) ==
    [raised |-> FALSE, light_vector |-> Normalize(SubtractValues(ps))]

\* SunSensor.calc_light_vector: ValueError when the largest value is 0 (or the
\* list is empty), else the normalized difference vector is stored
CalcLightVector(ps, lv) ==
    IF Len(ps) = 0 \/ MaxValue(ps) = 0
    THEN [raised |-> TRUE, light_vector |-> lv]
    ELSE [raised |-> FALSE, light_vector |-> Normalize(SubtractValues(ps))]

Max2(a, b) == IF a >= b THEN a ELSE b

\* the S component of one axis: `Ia if Ix_pos >= Ix_neg else -Ia`
SignedMax(pos, neg) == IF pos >= neg THEN Max2(pos, neg) ELSE -Max2(pos, neg)

\* mutant: a tie between the two sides of an axis gives the negative sign
CalcLightVectorByMaxValuesTieNegative(ps) ==
    LET S == [i \in 1..3 |->
                LET pos == ValueAt(ps, T_matrix[i])
                    neg == ValueAt(ps, Neg(T_matrix[i]))
                IN IF pos > neg THEN Max2(pos, neg) ELSE -Max2(pos, neg)]
    IN IF NormSq(S) = 0 THEN [raised |-> TRUE, vector |-> None]
       ELSE [raised |-> FALSE, vector |-> Normalize(S)]

\* SunSensor.calc_light_vector_by_max_values: the six intensities start at
\* 0.0 and take the value of the sensor mounted on their face; ValueError when
\* the norm of (Sx, Sy, Sz) is 0, else the normalized vector is returned (and
\* not stored)
CalcLightVectorByMaxValues(ps) ==
    LET S == [i \in 1..3 |->
                SignedMax(ValueAt(ps, T_matrix[i]), ValueAt(ps, Neg(T_matrix[i])))]
    IN IF NormSq(S) = 0 THEN [raised |-> TRUE, vector |-> None]
       ELSE [raised |-> FALSE, vector |-> Normalize(S)]

\* mutant: the live body carries the normalized values (in the voltage's unit)
LiveDataNormalized(ps, lv) ==
    [kind |-> "live", light_vector |-> lv,
     sensors |-> [i \in 1..Len(ps) |->
                    [color |-> ps[i].color, vector |-> ps[i].vector,
                     value |-> 10 * ps[i].value]]]

\* the request body of transmit_vec_to_plot_app
LiveData(ps, lv) ==
    [kind |-> "live", light_vector |-> lv,
     sensors |-> [i \in 1..Len(ps) |->
                    [color |-> ps[i].color, vector |-> ps[i].vector,
                     value |-> ps[i].value_voltage]]]

ShutdownData(ps) ==
    [kind |-> "shutdown", light_vector |-> ZeroVector,
     sensors |-> [i \in 1..Len(ps) |->
                    [color |-> ps[i].color, vector |-> ps[i].vector, value |-> 0]]]

\* mutant: the shutdown branch zeroes the voltages too
ZeroValuesAndVoltages(ps) ==
    [i \in 1..Len(ps) |-> [ps[i] EXCEPT !.value = 0, !.value_voltage = 0]]

\* shutdown=True: every sensor.value = 0.0 (value_voltage is not touched)
ZeroValues(ps) == [i \in 1..Len(ps) |-> [ps[i] EXCEPT !.value = 0]]

\* mutant: the loop condition does not look at the stop event
WhileCondIgnoresStop == TRUE

\* mutant: with a zero or unset interval the loop is left after its first tick
WhileCondSingleShot ==
    ~stop_event /\ (read_interval \notin {NoInterval, 0} \/ light_vector = None)

\* mutant: the loop condition without `self.stop_event is None or`
WhileCondNeedsEvent == ~stop_event

\* `while self.stop_event is None or not self.stop_event.is_set()`
WhileCond == sensor_stop_event = "None" \/ ~stop_event

\* mutant: the shutdown request is sent whatever the toggle says
ShutdownPublishAlways == TRUE

\* `if config.plot_app["PRINT_PLOT_APP"]` in the finally clause
ShutdownPublishEnabled == print_plot_app

\* mutant: safe_run without its except clause
SafeRunNoCatch(outcome) == IF outcome = "raised" THEN "crashed" ELSE "returned"

\* ADCS.attitude_determination_system.safe_run: how the thread ends for an
\* outcome of sensor.run(): a raised Exception is caught and printed
SafeRun(outcome) == IF outcome = "raised" THEN "caught" ELSE "returned"

\* keys of ADCS.sensors in insertion order: 0 is "sun_sensor"
SensorKeys == 0..NumOtherSensors
Dead(t) == t \in {"returned", "caught", "crashed"}

supervisorAll == <<mainPc, run_exit, adsPc, threads>>

\* mutant: an error in a tick ends run() without the finally clause
ErrorExitSkipsFinally == "ended"

\* lines 91-93: an Exception raised in the loop is caught and logged by
\* `except Exception`, and the finally clause follows
ErrorExit == "finally"

\* `if self.read_interval is not None: time.sleep(self.read_interval)`:
\* where the loop goes after a tick's last statement
AfterTick == IF read_interval # NoInterval THEN "sleep" ELSE "while"

\* mutant: the RequestException of a live request is not caught and leaves
\* the loop through run()'s `except Exception`
AfterPostFailedRaises == "finally"

\* lines 252-253: the except clause logs the RequestException and
\* transmit_vec_to_plot_app returns to the loop
AfterPostFailed == AfterTick

\* what requests.post / raise_for_status give
PostOutcomes == {"ok", "RequestException"}

\* top of the while loop (line 77)
RunWhile ==
    /\ runPc = "while"
    /\ runPc' = IF WhileCond THEN "tick" ELSE "finally"
    /\ last_read' = {}
    /\ UNCHANGED <<idleVars, photoresistors, light_vector, stop_event,
                   print_plot_app, data, shutdown_posts, supervisorAll>>

\* lines 78-83: read all sensors, calculate, print; a ValueError of the
\* calculation leaves the loop through `except Exception` (logged) to `finally`
RunReadCalc ==
    /\ runPc = "tick"
    /\ \E snapshot \in Snapshots(Len(photoresistors)) :
         LET ps == ReadSensorsValue(photoresistors, snapshot)
             r == CalcLightVector(ps, light_vector)
         IN /\ photoresistors' = ps
            /\ last_read' = ReadRecords(snapshot)
            /\ light_vector' = r.light_vector
            /\ runPc' = IF r.raised THEN ErrorExit
                        ELSE IF print_plot_app THEN "transmit" ELSE AfterTick
    /\ UNCHANGED <<idleVars, stop_event, print_plot_app, data,
                   shutdown_posts, supervisorAll>>

\* lines 85-86, 230-242: transmit_vec_to_plot_app() builds the request body
RunTransmit ==
    /\ runPc = "transmit"
    /\ data' = LiveData(photoresistors, light_vector)
    /\ runPc' = "post"
    /\ last_read' = {}
    /\ UNCHANGED <<idleVars, photoresistors, light_vector, stop_event,
                   print_plot_app, shutdown_posts, supervisorAll>>

\* lines 244-251: requests.post and raise_for_status
RunPost ==
    /\ runPc = "post"
    /\ data' = NoData
    /\ \E outcome \in PostOutcomes :
         runPc' = IF outcome = "ok" THEN AfterTick ELSE "post_failed"
    /\ UNCHANGED <<idleVars, photoresistors, light_vector, stop_event,
                   print_plot_app, shutdown_posts, supervisorAll, last_read>>

\* lines 252-253: the RequestException is logged
RunPostFailed ==
    /\ runPc = "post_failed"
    /\ runPc' = AfterPostFailed
    /\ UNCHANGED <<idleVars, photoresistors, light_vector, stop_event,
                   print_plot_app, data, shutdown_posts, supervisorAll, last_read>>

\* lines 88-89: time.sleep(read_interval)
RunSleep ==
    /\ runPc = "sleep"
    /\ runPc' = "while"
    /\ last_read' = {}
    /\ UNCHANGED <<idleVars, photoresistors, light_vector, stop_event,
                   print_plot_app, data, shutdown_posts, supervisorAll>>

\* lines 93-96, 214-229: finally; transmit_vec_to_plot_app(shutdown=True)
\* zeroes the estimate and the values and builds the all-zero body.  With the
\* toggle off run() returns and safe_run ends the thread.
RunFinally ==
    /\ runPc = "finally"
    /\ last_read' = {}
    /\ IF ShutdownPublishEnabled
       THEN /\ light_vector' = ZeroVector
            /\ photoresistors' = ZeroValues(photoresistors)
            /\ data' = ShutdownData(photoresistors)
            /\ runPc' = "post_shutdown"
            /\ UNCHANGED threads
       ELSE /\ runPc' = "ended"
            /\ threads' = [threads EXCEPT ![0] = SafeRun("returned")]
            /\ UNCHANGED <<light_vector, photoresistors, data>>
    /\ UNCHANGED <<idleVars, stop_event, print_plot_app, shutdown_posts,
                   mainPc, run_exit, adsPc>>

\* lines 244-251 for the shutdown body, then line 99: after a request that
\* succeeds run() returns and safe_run ends the thread
RunPostShutdown ==
    /\ runPc = "post_shutdown"
    /\ data' = NoData
    /\ shutdown_posts' = shutdown_posts + 1
    /\ \E outcome \in PostOutcomes :
         IF outcome = "ok"
         THEN /\ runPc' = "ended"
              /\ threads' = [threads EXCEPT ![0] = SafeRun("returned")]
         ELSE /\ runPc' = "post_shutdown_failed"
              /\ UNCHANGED threads
    /\ UNCHANGED <<idleVars, photoresistors, light_vector, stop_event,
                   print_plot_app, mainPc, run_exit, adsPc, last_read>>

\* lines 252-253 for the shutdown body, then line 99: the RequestException is
\* logged, run() returns and safe_run ends the thread
RunPostShutdownFailed ==
    /\ runPc = "post_shutdown_failed"
    /\ runPc' = "ended"
    /\ threads' = [threads EXCEPT ![0] = SafeRun("returned")]
    /\ UNCHANGED <<idleVars, photoresistors, light_vector, stop_event,
                   print_plot_app, data, shutdown_posts, mainPc, run_exit,
                   adsPc, last_read>>

SunSensorRun ==
    \/ RunWhile
    \/ RunReadCalc
    \/ RunTransmit
    \/ RunPost
    \/ RunPostFailed
    \/ RunSleep
    \/ RunFinally
    \/ RunPostShutdown
    \/ RunPostShutdownFailed

----------------------------------------------------------------------------
(* adcs.py: ADCS *)

sensorState == <<idleVars, photoresistors, light_vector, print_plot_app,
                 data, shutdown_posts, last_read>>

\* run(), lines 39-40: ads_thread is created and started
MainStartAds ==
    /\ mainPc = "try"
    /\ mainPc' = "join"
    /\ adsPc' = "start"
    /\ UNCHANGED <<sensorState, stop_event, runPc, run_exit, threads>>

\* run(), line 45: ads_thread.join() returns once the thread is dead
MainJoin ==
    /\ mainPc = "join"
    /\ adsPc = "done"
    /\ mainPc' = "returned"
    /\ run_exit' = "normal"
    /\ UNCHANGED <<sensorState, stop_event, runPc, adsPc, threads>>

\* mutant: the handler clears the event instead of setting it
StopEventCleared == FALSE

\* `self.stop_event.set()` (line 49): the flag of the Event becomes true,
\* whatever it was
StopEventSet == TRUE

\* run(), lines 47-49: a KeyboardInterrupt anywhere in the try block sets the
\* stop event, and run() returns
KeyboardInterrupt ==
    /\ mainPc \in {"try", "join"}
    /\ stop_event' = StopEventSet
    /\ mainPc' = "returned"
    /\ run_exit' = "interrupt"
    /\ UNCHANGED <<sensorState, runPc, adsPc, threads>>

\* attitude_determination_system, lines 66-68: one thread per entry of
\* self.sensors, started in dict order
AdsStartSensor(k) ==
    /\ adsPc = "start"
    /\ threads[k] = "unstarted"
    /\ \A j \in SensorKeys : j < k => threads[j] # "unstarted"
    /\ threads' = [threads EXCEPT ![k] = "running"]
    /\ runPc' = IF k = 0 THEN "while" ELSE runPc
    /\ adsPc' = IF k = NumOtherSensors THEN "join" ELSE "start"
    /\ UNCHANGED <<sensorState, stop_event, mainPc, run_exit>>

\* attitude_determination_system, lines 70-71: every thread is joined
AdsJoin ==
    /\ adsPc = "join"
    /\ \A k \in SensorKeys : Dead(threads[k])
    /\ adsPc' = "done"
    /\ UNCHANGED <<sensorState, stop_event, runPc, mainPc, run_exit, threads>>

\* safe_run for another entry of self.sensors: its run() is opaque, it
\* returns or raises an Exception
OtherSensorRun(k) ==
    /\ k # 0
    /\ threads[k] = "running"
    /\ \E outcome \in {"returned", "raised"} :
         threads' = [threads EXCEPT ![k] = SafeRun(outcome)]
    /\ UNCHANGED <<sensorState, stop_event, runPc, mainPc, run_exit, adsPc>>

AdsThread ==
    \/ \E k \in SensorKeys : AdsStartSensor(k)
    \/ AdsJoin

OtherSensors == \E k \in SensorKeys : OtherSensorRun(k)

\* the state after `app = ADCS()`: the shipped sensors are registered and
\* constructed, nothing is started
InitConstructed ==
    /\ used_channels = {SENSORS[i].pin_key : i \in 1..Len(SENSORS)}
    /\ used_vectors = {SENSORS[i].vector : i \in 1..Len(SENSORS)}
    /\ used_collors = {SENSORS[i].color : i \in 1..Len(SENSORS)}
    /\ photoresistors = [i \in 1..Len(SENSORS) |->
                           NewSensor(SENSORS[i].pin_key, SENSORS[i].color, SENSORS[i].vector)]
    /\ last_call = NoCall
    /\ unregister_history = "none"
    /\ light_vector = None
    /\ stop_event = FALSE
    /\ runPc = "idle"
    /\ data = NoData
    /\ shutdown_posts = 0
    /\ mainPc = "try"
    /\ run_exit = "none"
    /\ adsPc = "unstarted"
    /\ threads = [k \in SensorKeys |-> "unstarted"]
    /\ last_read = {}
    /\ sun_vector = NoResult
    /\ callers = << >>
    /\ last_construct = NoConstruct

\* any setting of the telemetry toggle
Init ==
    /\ InitConstructed
    /\ sensor_stop_event = "event"
    /\ print_plot_app \in BOOLEAN
    /\ read_interval = READ_INTERVAL

\* the toggle as config.py ships it
InitShipped ==
    /\ InitConstructed
    /\ sensor_stop_event = "event"
    /\ print_plot_app = PRINT_PLOT_APP
    /\ read_interval = READ_INTERVAL

Next ==
    \/ MainStartAds
    \/ MainJoin
    \/ KeyboardInterrupt
    \/ AdsThread
    \/ OtherSensors
    \/ SunSensorRun

\* a SunSensor constructed with read_interval=None or read_interval=0
InitInterval ==
    /\ InitConstructed
    /\ sensor_stop_event = "event"
    /\ print_plot_app = PRINT_PLOT_APP
    /\ read_interval \in {NoInterval, 0}

\* the steps of SunSensor.run other than the tick's read and calculation
LoopControl ==
    \/ RunWhile
    \/ RunTransmit
    \/ RunPost
    \/ RunPostFailed
    \/ RunSleep
    \/ RunFinally
    \/ RunPostShutdown
    \/ RunPostShutdownFailed

\* Started threads keep being scheduled; the interrupt and the other sensors'
\* run() are under no obligation.  RunReadCalc is enabled exactly when
\* runPc = "tick" and every step of it leaves "tick", so weak fairness of it
\* is []<>(runPc # "tick").
Fairness ==
    /\ WF_vars(LoopControl)
    /\ []<>(runPc # "tick")
    /\ WF_vars(AdsThread)
    /\ WF_vars(MainJoin)

Spec == Init /\ [][Next]_vars

SpecInterval == InitInterval /\ [][Next]_vars

\* a SunSensor constructed without stop_event and run as the sensor thread;
\* the supervisor's Event is not the sensor's
InitNoEvent ==
    /\ InitConstructed
    /\ sensor_stop_event = "None"
    /\ print_plot_app = PRINT_PLOT_APP
    /\ read_interval = READ_INTERVAL

SpecNoEvent == InitNoEvent /\ [][Next]_vars

SpecShipped == InitShipped /\ [][Next]_vars /\ Fairness

----------------------------------------------------------------------------
(* PhotoresistorValidator.validate called by several threads at once: the
   class holds no lock, so a thread switch can fall between any two of its
   statements *)

Callers == 1..NumCallers
IdleCaller == [pc |-> "idle", name |-> "", vector |-> <<0, 0, 0>>, color |-> ""]

InitConcurrent ==
    /\ used_channels = {}
    /\ used_vectors = {}
    /\ used_collors = {}
    /\ photoresistors = << >>
    /\ last_call = NoCall
    /\ unregister_history = "none"
    /\ light_vector = None
    /\ stop_event = FALSE
    /\ print_plot_app = PRINT_PLOT_APP
    /\ runPc = "idle"
    /\ data = NoData
    /\ shutdown_posts = 0
    /\ mainPc = "idle"
    /\ run_exit = "none"
    /\ adsPc = "unstarted"
    /\ threads = << >>
    /\ read_interval = READ_INTERVAL
    /\ last_read = {}
    /\ sun_vector = NoResult
    /\ callers = [c \in Callers |-> IdleCaller]
    /\ last_construct = NoConstruct
    /\ sensor_stop_event = "event"

concurrentOther == <<photoresistors, last_call, unregister_history, light_vector,
                     stop_event, print_plot_app, runPc, data, shutdown_posts,
                     supervisorAll, read_interval, last_read, sun_vector,
                     sensor_stop_event, last_construct>>

\* one statement of validate that checks: raise or go on
CheckStep(c, at, fails, next) ==
    /\ callers[c].pc = at
    /\ callers' = [callers EXCEPT ![c].pc = IF fails THEN "raised" ELSE next]
    /\ UNCHANGED <<used_channels, used_vectors, used_collors, concurrentOther>>

\* the call of validate (photoresistor.py line 26)
ValidateEnter ==
    \E c \in Callers, name \in Names, vector \in Vectors, color \in Colors :
        /\ callers[c].pc = "idle"
        /\ callers' = [callers EXCEPT ![c] = [pc |-> "check_name", name |-> name,
                                              vector |-> vector, color |-> color]]
        /\ UNCHANGED <<used_channels, used_vectors, used_collors, concurrentOther>>

\* lines 133-134
ValidateCheckName ==
    \E c \in Callers :
        CheckStep(c, "check_name", callers[c].name \notin ALLOWED_NAMES, "check_channel")

\* lines 135-136
ValidateCheckChannel ==
    \E c \in Callers :
        CheckStep(c, "check_channel", callers[c].name \in used_channels, "check_vector")

\* lines 137-138
ValidateCheckVector ==
    \E c \in Callers :
        CheckStep(c, "check_vector", callers[c].vector \in used_vectors, "check_color")

\* lines 139-140
ValidateCheckColor ==
    \E c \in Callers :
        CheckStep(c, "check_color", callers[c].color \in used_collors, "add_channel")

\* line 142
ValidateAddChannel ==
    \E c \in Callers :
        /\ callers[c].pc = "add_channel"
        /\ used_channels' = used_channels \cup {callers[c].name}
        /\ callers' = [callers EXCEPT ![c].pc = "add_vector"]
        /\ UNCHANGED <<used_vectors, used_collors, concurrentOther>>

\* line 143
ValidateAddVector ==
    \E c \in Callers :
        /\ callers[c].pc = "add_vector"
        /\ used_vectors' = used_vectors \cup {callers[c].vector}
        /\ callers' = [callers EXCEPT ![c].pc = "add_color"]
        /\ UNCHANGED <<used_channels, used_collors, concurrentOther>>

\* lines 144-145, then validate returns
ValidateAddColor ==
    \E c \in Callers :
        /\ callers[c].pc = "add_color"
        /\ used_collors' = IF Falsy(callers[c].color) THEN used_collors
                           ELSE used_collors \cup {callers[c].color}
        /\ callers' = [callers EXCEPT ![c].pc = "returned"]
        /\ UNCHANGED <<used_channels, used_vectors, concurrentOther>>

NextConcurrent ==
    \/ ValidateEnter
    \/ ValidateCheckName
    \/ ValidateCheckChannel
    \/ ValidateCheckVector
    \/ ValidateCheckColor
    \/ ValidateAddChannel
    \/ ValidateAddVector
    \/ ValidateAddColor

SpecConcurrent == InitConcurrent /\ [][NextConcurrent]_vars

----------------------------------------------------------------------------
(* SunSensor._initialize_photoresistors: SunSensor objects constructed one
   after the other from any sensor lists; nothing in the program calls
   PhotoresistorValidator.unregister *)

\* PhotoresistorValidator.validate on a registry reg
ValidateOn(reg, name, vector, color) ==
    IF \/ name \notin ALLOWED_NAMES
       \/ name \in reg.channels
       \/ vector \in reg.vectors
       \/ color \in reg.collors
    THEN [raised |-> TRUE, reg |-> reg]
    ELSE [raised |-> FALSE,
          reg |-> [channels |-> reg.channels \cup {name},
                   vectors |-> reg.vectors \cup {vector},
                   collors |-> IF Falsy(color) THEN reg.collors
                               ELSE reg.collors \cup {color}]]

\* the for loop from its k-th entry on: the ValueError of a Photoresistor()
\* is not caught and ends the loop
RECURSIVE InitializeFrom(_, _, _)
InitializeFrom(reg, sensors, k) ==
    IF k > Len(sensors)
    THEN [raised |-> FALSE, built |-> Len(sensors), reg |-> reg]
    ELSE LET r == ValidateOn(reg, sensors[k].pin_key, sensors[k].vector, sensors[k].color)
         IN IF r.raised
            THEN [raised |-> TRUE, built |-> k - 1, reg |-> reg]
            ELSE InitializeFrom(r.reg, sensors, k + 1)

\* mutant: a failed construction takes its registrations back
InitializePhotoresistorsRollsBack(reg, sensors) ==
    LET r == InitializeFrom(reg, sensors, 1)
    IN IF r.raised THEN [r EXCEPT !.reg = reg] ELSE r

\* _initialize_photoresistors(sensors) on a registry reg
InitializePhotoresistors(reg, sensors) == InitializeFrom(reg, sensors, 1)

\* entries of a sensor list: any channel name with any mount vector, every
\* channel in a colour of its own
WireColor(name) ==
    CASE name = "AIN0" -> "white" [] name = "AIN1" -> "green" [] OTHER -> ""
SensorDicts ==
    {[pin_key |-> n, color |-> WireColor(n), vector |-> v] : n \in Names, v \in Vectors}
SensorLists == UNION {[1..n -> SensorDicts] : n \in 0..MaxSetSize}

\* SunSensor(sensors=...): on success the object holds the new list
ConstructSunSensor ==
    /\ \E sensors \in SensorLists :
         LET r == InitializePhotoresistors(Registry, sensors) IN
         /\ used_channels' = r.reg.channels
         /\ used_vectors' = r.reg.vectors
         /\ used_collors' = r.reg.collors
         /\ last_construct' = [sensors |-> sensors, raised |-> r.raised, built |-> r.built]
         /\ photoresistors' =
               IF r.raised THEN photoresistors
               ELSE [i \in 1..Len(sensors) |->
                       NewSensor(sensors[i].pin_key, sensors[i].color, sensors[i].vector)]
    /\ UNCHANGED <<last_call, unregister_history, light_vector, stop_event,
                   print_plot_app, runPc, data, shutdown_posts, supervisorAll,
                   read_interval, last_read, sun_vector, callers, sensor_stop_event>>

NextConstruct == ConstructSunSensor

SpecConstruct == InitValidator /\ [][NextConstruct]_vars

----------------------------------------------------------------------------
(* Photoresistor.read_sensor_value called on the constructed sensors, with
   any content of the ADC file *)

PhotoresistorRead ==
    /\ \E i \in 1..Len(photoresistors), outcome \in ReadInputs :
         /\ photoresistors' = [photoresistors EXCEPT ![i] = ReadSensorValue(@, outcome)]
         /\ last_read' = {[i |-> i, ok |-> outcome.ok, raw |-> outcome.raw]}
    /\ UNCHANGED <<idleVars, light_vector, stop_event, print_plot_app, runPc, data,
                   shutdown_posts, supervisorAll>>

NextSensor == PhotoresistorRead

SpecSensor == InitShipped /\ [][NextSensor]_vars

----------------------------------------------------------------------------
(* The two estimators of SunSensor called on a sensor list with any stored
   values *)

\* the shipped sensors, and the shipped sensors with one on the -Z face
SIX_SENSORS ==
    Append(SENSORS, [pin_key |-> "AIN4", color |-> "blue", vector |-> <<0, 0, -1>>])
SensorConfigs == {SENSORS, SIX_SENSORS}

\* stored values: the constructor's -1, 0, 0.2, 0.5, 0.8 and 1
StoredValues == {-FullScale, 0, 819, 2048, 3276, FullScale}

StoredSensor(cfg, value) ==
    [NewSensor(cfg.pin_key, cfg.color, cfg.vector) EXCEPT
        !.value = value,
        !.value_voltage = IF value = -FullScale THEN -(10 * FullScale)
                          ELSE value * RefVoltageTenths]

InitEstimator ==
    /\ \E sensors \in SensorConfigs :
         /\ used_channels = {sensors[i].pin_key : i \in 1..Len(sensors)}
         /\ used_vectors = {sensors[i].vector : i \in 1..Len(sensors)}
         /\ used_collors = {sensors[i].color : i \in 1..Len(sensors)}
         /\ \E values \in [1..Len(sensors) -> StoredValues] :
              photoresistors = [i \in 1..Len(sensors) |-> StoredSensor(sensors[i], values[i])]
    /\ last_call = NoCall
    /\ unregister_history = "none"
    /\ light_vector = None
    /\ stop_event = FALSE
    /\ print_plot_app = PRINT_PLOT_APP
    /\ runPc = "idle"
    /\ data = NoData
    /\ shutdown_posts = 0
    /\ mainPc = "idle"
    /\ run_exit = "none"
    /\ adsPc = "unstarted"
    /\ threads = << >>
    /\ read_interval = READ_INTERVAL
    /\ last_read = {}
    /\ sun_vector = NoResult
    /\ callers = << >>
    /\ last_construct = NoConstruct
    /\ sensor_stop_event = "event"

\* calc_light_vector(): the estimate is stored unless the call raises
CallCalcLightVector ==
    /\ light_vector' = CalcLightVector(photoresistors, light_vector).light_vector
    /\ UNCHANGED <<validatorVars, photoresistors, stop_event, print_plot_app, runPc,
                   data, shutdown_posts, supervisorAll, read_interval, last_read,
                   sun_vector, callers, sensor_stop_event, last_construct>>

\* calc_light_vector_by_max_values(): the estimate is returned or the call raises
CallCalcLightVectorByMaxValues ==
    /\ sun_vector' = CalcLightVectorByMaxValues(photoresistors)
    /\ UNCHANGED <<validatorVars, photoresistors, light_vector, stop_event,
                   print_plot_app, runPc, data, shutdown_posts, supervisorAll,
                   read_interval, last_read, callers, sensor_stop_event,
                   last_construct>>

NextEstimator ==
    \/ CallCalcLightVector
    \/ CallCalcLightVectorByMaxValues

SpecEstimator == InitEstimator /\ [][NextEstimator]_vars

----------------------------------------------------------------------------
(* Claims about the registry (SpecValidator) *)

RegistryUnchanged ==
    /\ used_channels' = used_channels
    /\ used_vectors' = used_vectors
    /\ used_collors' = used_collors

IsValidateCall(c) == c.op \in {"validate", "Photoresistor"}

\* C6: a validate call that is rejected (whatever the failing check) leaves the
\* three registry sets exactly as they were before the call.
C6_RejectedValidateKeepsRegistry ==
    [][(IsValidateCall(last_call') /\ last_call'.raised) => RegistryUnchanged]_vars

\* a validate call on an allowed channel was rejected while entries were registered
C6_Witness ==
    /\ last_call.op = "validate"
    /\ last_call.raised
    /\ last_call.name \in ALLOWED_NAMES
    /\ last_call.name \notin used_channels
    /\ used_vectors # {}

AllDistinct ==
    \A i, j \in 1..Len(photoresistors) :
        i # j => /\ photoresistors[i].channel # photoresistors[j].channel
                 /\ photoresistors[i].vector # photoresistors[j].vector

FailCondition(name, vector, color) ==
    \/ name \notin ALLOWED_NAMES
    \/ name \in used_channels
    \/ vector \in used_vectors
    \/ color \in used_collors

\* C8 as stated: validate fails exactly under the four conditions and otherwise
\* leaves channel, vector and colour all registered.
C8_Original ==
    [][IsValidateCall(last_call') =>
         /\ last_call'.raised <=>
              FailCondition(last_call'.name, last_call'.vector, last_call'.color)
         /\ ~last_call'.raised =>
              /\ last_call'.name \in used_channels'
              /\ last_call'.vector \in used_vectors'
              /\ last_call'.color \in used_collors']_vars

\* C8 amended: validate fails exactly under the four conditions; otherwise it
\* registers the channel and the vector, and the colour only when the colour is
\* non-empty (an empty colour is accepted and leaves the colour set unchanged).
C8_ValidateFailsExactlyWhen ==
    [][IsValidateCall(last_call') =>
         /\ last_call'.raised <=>
              FailCondition(last_call'.name, last_call'.vector, last_call'.color)
         /\ ~last_call'.raised =>
              /\ used_channels' = used_channels \cup {last_call'.name}
              /\ used_vectors' = used_vectors \cup {last_call'.vector}
              /\ used_collors' = IF last_call'.color = "" THEN used_collors
                                 ELSE used_collors \cup {last_call'.color}]_vars

\* a validate call with a colour succeeded and registered all three
C8_Witness ==
    /\ last_call.op = "validate"
    /\ ~last_call.raised
    /\ last_call.color # ""
    /\ last_call.name \in used_channels
    /\ last_call.vector \in used_vectors
    /\ last_call.color \in used_collors

SameRegistry(a, b) ==
    /\ a.channels = b.channels
    /\ a.vectors = b.vectors
    /\ a.collors = b.collors

\* C9: unregister never raises; on absent entries it changes nothing; and a
\* second call with the same arguments leaves the registry as the first left it.
C9_UnregisterIdempotentTotal ==
    /\ last_call.op = "unregister" =>
         /\ ~last_call.raised
         /\ last_call.name \notin used_channels
         /\ last_call.vector \notin used_vectors
         /\ last_call.color \notin used_collors
    /\ \A name \in Names, vector \in Vectors, color \in Colors :
         LET once == UnregisterResult(Registry, name, vector, color)
             twice == UnregisterResult(once, name, vector, color)
         IN /\ ~once.raised
            /\ ~twice.raised
            /\ SameRegistry(twice, once)
            /\ (name \notin used_channels /\ vector \notin used_vectors
                /\ color \notin used_collors) => SameRegistry(once, Registry)

\* unregister was called for a channel that is never registered, on a non-empty registry
C9_Witness ==
    /\ last_call.op = "unregister"
    /\ last_call.name \notin ALLOWED_NAMES
    /\ used_channels # {}


----------------------------------------------------------------------------
(* Claims about the acquisition loop and the supervisor (Spec, SpecShipped) *)

LoopLeft == runPc \in {"finally", "post_shutdown", "post_shutdown_failed", "ended"}
LoopRunning == runPc \in {"while", "tick", "transmit", "post", "post_failed", "sleep"}

AllValuesZero == \A i \in 1..Len(photoresistors) : photoresistors[i].value = 0

\* C1 as stated: the loop is left only through cancellation; a degenerate
\* tick is skipped and the loop goes on.
C1_Original == LoopLeft => stop_event

\* the order of the loop's positions inside a tick and when it is left
LoopOrder ==
    {<<"while", "finally">>, <<"tick", "transmit">>, <<"tick", "sleep">>,
     <<"tick", "finally">>, <<"transmit", "post">>, <<"post", "sleep">>,
     <<"sleep", "while">>, <<"finally", "post_shutdown">>, <<"finally", "ended">>,
     <<"post_shutdown", "ended">>, <<"post", "post_failed">>,
     <<"post_failed", "sleep">>, <<"post_shutdown", "post_shutdown_failed">>,
     <<"post_shutdown_failed", "ended">>}

\* C2: once the stop event is set while the loop runs, the loop finishes the
\* tick in progress in the usual order, starts no further tick,
\* eventually reaches its stopped state, and posts exactly one
\* shutdown request whose estimate is the zero vector and whose sensor values
\* are all zero (telemetry toggle as shipped).
C2_CancelStopsWithOneShutdownPublish ==
    /\ [][(stop_event /\ runPc = "while") => runPc' # "tick"]_vars
    /\ [][(stop_event /\ runPc' # runPc /\ runPc # "idle") => <<runPc, runPc'>> \in LoopOrder]_vars
    /\ ((stop_event /\ LoopRunning) ~> (runPc = "ended"))
    /\ [](shutdown_posts <= 1)
    /\ [](runPc = "post_shutdown" =>
            /\ shutdown_posts = 0
            /\ data.kind = "shutdown"
            /\ data.light_vector = ZeroVector
            /\ \A i \in 1..Len(data.sensors) : data.sensors[i].value = 0)
    /\ [](runPc = "ended" =>
            /\ shutdown_posts = 1
            /\ light_vector = ZeroVector
            /\ AllValuesZero)

\* the loop was cancelled after a tick with light and has stopped
C2_Witness ==
    /\ runPc = "ended"
    /\ stop_event
    /\ run_exit = "interrupt"
    /\ shutdown_posts = 1
    /\ \E i \in 1..Len(photoresistors) : photoresistors[i].value_voltage > 0

\* C3 as stated: with the telemetry toggle off a cancelled loop still posts
\* one shutdown request before it stops.
C3_Original ==
    (runPc = "ended" /\ stop_event /\ ~print_plot_app) => shutdown_posts = 1

\* C3 amended: the shutdown request is posted only when the telemetry toggle
\* is on: a loop that stops with the toggle off has posted no shutdown request
\* and has not zeroed its estimate; with the toggle on it has posted exactly one.
C3_ShutdownPublishFollowsToggle ==
    /\ ~print_plot_app => (shutdown_posts = 0 /\ data = NoData /\ light_vector # ZeroVector)
    /\ runPc = "ended" => shutdown_posts = (IF print_plot_app THEN 1 ELSE 0)

\* a loop with the toggle off was cancelled after a tick with light and has stopped
C3_Witness ==
    /\ runPc = "ended"
    /\ stop_event
    /\ ~print_plot_app
    /\ light_vector.kind = "array"
    /\ MaxValue(photoresistors) > 0

\* C4 as stated: when run() has returned, no subsystem thread is running.
C4_Original ==
    mainPc = "returned" =>
        /\ adsPc \in {"unstarted", "done"}
        /\ \A k \in SensorKeys : threads[k] # "running"

\* C5: an Exception raised by a subsystem's run() is caught by safe_run: no
\* thread ends with an uncaught error, the step that catches it changes no
\* other thread and not the sun sensor loop, and the determination thread ends
\* (and run(), when not interrupted, returns) only with every sensor thread dead.
C5_FaultIsolation ==
    /\ [](\A k \in SensorKeys : threads[k] # "crashed")
    /\ [][\A k \in SensorKeys :
            (threads[k] = "running" /\ threads'[k] = "caught") =>
               /\ \A j \in SensorKeys \ {k} : threads'[j] = threads[j]
               /\ runPc' = runPc
               /\ adsPc' = adsPc
               /\ mainPc' = mainPc]_vars
    /\ [](adsPc = "done" => \A k \in SensorKeys : Dead(threads[k]))
    /\ []((mainPc = "returned" /\ run_exit = "normal") =>
            (adsPc = "done" /\ \A k \in SensorKeys : Dead(threads[k])))

\* a sensor's run() raised and was caught while the sun sensor thread keeps
\* running its tick
C5_Witness ==
    /\ \E k \in SensorKeys : threads[k] = "caught"
    /\ threads[0] = "running"
    /\ runPc = "transmit"
    /\ IsUnit(light_vector)

\* C10 as stated: an estimate stored by calc_light_vector is a finite vector
\* of unit magnitude.
C10_Original ==
    (light_vector.kind = "array" /\ runPc \notin {"post_shutdown", "post_shutdown_failed", "ended"})
        => IsUnit(light_vector)

\* C16: a RequestException of the live request is logged and the loop goes on
\* to its sleep and, unless the stop event is set, to the next tick; a
\* RequestException of the shutdown request is logged and the loop still ends,
\* its thread returning normally.  Neither changes the estimate, the sensors
\* or any other thread.
C16_TransportFailureNotFatal ==
    /\ [][(runPc = "post_failed" /\ runPc' # runPc) =>
             /\ runPc' = "sleep"
             /\ threads' = threads
             /\ light_vector' = light_vector
             /\ photoresistors' = photoresistors]_vars
    /\ [][(runPc = "post_shutdown_failed" /\ runPc' # runPc) =>
             /\ runPc' = "ended"
             /\ threads'[0] = "returned"
             /\ shutdown_posts' = shutdown_posts]_vars
    /\ [](runPc \in {"post_failed", "post_shutdown_failed"} => threads[0] = "running")
    /\ ((runPc = "post_failed") ~> (runPc = "tick" \/ stop_event))
    /\ ((runPc = "post_shutdown_failed") ~> (runPc = "ended"))

\* the live request of a tick with light failed while the loop is not
\* cancelled and its thread runs
C16_Witness ==
    /\ runPc = "post_failed"
    /\ ~stop_event
    /\ threads[0] = "running"
    /\ IsUnit(light_vector)

\* what the sun sensor's thread works on
sunSensorVars == <<photoresistors, light_vector, data, shutdown_posts, last_read>>

C24_OneShutdownPublishOnEveryExit ==
    /\ [][/\ (LoopRunning /\ ~LoopRunning') =>
               /\ runPc' = "finally"
               /\ (runPc = "while" /\ stop_event) \/ runPc = "tick"
          /\ shutdown_posts' # shutdown_posts =>
               /\ runPc = "post_shutdown"
               /\ shutdown_posts = 0
               /\ shutdown_posts' = 1
               /\ data.kind = "shutdown"]_vars
    /\ [](runPc \in {"post_shutdown", "post_shutdown_failed", "ended"} =>
            /\ light_vector = ZeroVector
            /\ AllValuesZero
            /\ shutdown_posts = IF runPc = "post_shutdown" THEN 0 ELSE 1)
    /\ ((runPc = "finally") ~> (runPc = "ended"))

\* the loop ended by an error in a tick, not by cancellation, after one
\* shutdown request
C24_Witness ==
    /\ runPc = "ended"
    /\ ~stop_event
    /\ shutdown_posts = 1
    /\ light_vector = ZeroVector
    /\ AllValuesZero

\* C25: the loop of a SunSensor without stop_event starts a tick at every
\* while test, whatever the supervisor's Event says, and is left only from a
\* tick whose calculation raised.
C25_NoEventNeverCancelled ==
    /\ [][/\ (runPc = "while" /\ runPc' # runPc) => runPc' = "tick"
          /\ (LoopRunning /\ ~LoopRunning') => (runPc = "tick" /\ runPc' = "finally")]_vars
    /\ [](runPc = "finally" => MaxValue(photoresistors) = 0)

\* the supervisor's Event is set, run() of the supervisor has returned, and
\* the loop has stored an estimate and is in a tick
C25_Witness ==
    /\ sensor_stop_event = "None"
    /\ stop_event
    /\ mainPc = "returned"
    /\ runPc = "tick"
    /\ IsUnit(light_vector)

----------------------------------------------------------------------------
(* Claims about reading and estimating inside a tick (Spec) *)

\* the step of the loop that reads the sensors and calculates
TickStep == runPc = "tick" /\ runPc' # "tick"

\* C11: a tick whose reads leave every sensor's normalized value exactly zero
\* fails the calculation (the loop goes to its error exit) and leaves the
\* stored estimate as it was: neither NaN nor a zero vector is stored by it.
C11_AllZeroRaisesAndKeepsEstimate ==
    [][(TickStep /\ \A i \in 1..Len(photoresistors') : photoresistors'[i].value = 0)
          => /\ runPc' = "finally"
             /\ light_vector' = light_vector
             /\ light_vector' # ZeroVector]_vars

\* a tick read zero on every sensor after an earlier tick had stored a unit estimate
C11_Witness ==
    /\ runPc = "finally"
    /\ ~stop_event
    /\ last_read # {}
    /\ \A r \in last_read : r.ok /\ r.raw = 0
    /\ AllValuesZero
    /\ IsUnit(light_vector)

\* C14: in a tick every sensor is read; a sensor whose read fails keeps its
\* stored value and voltage, the others store what they read, and the failure
\* ends neither the reads nor the tick: right after the reads the estimate is
\* the one calculated from the fresh values plus the stale one (and the loop
\* is left only for a largest value of zero).
C14_FailedReadKeepsStaleAndTickGoesOn ==
    /\ [][TickStep =>
            /\ {r.i : r \in last_read'} = 1..Len(photoresistors)
            /\ \A r \in last_read' : ~r.ok => photoresistors'[r.i] = photoresistors[r.i]]_vars
    /\ [](last_read # {} =>
            /\ \A r \in last_read :
                 r.ok => /\ photoresistors[r.i].value = r.raw
                         /\ photoresistors[r.i].value_voltage = r.raw * RefVoltageTenths
            /\ IF MaxValue(photoresistors) = 0
               THEN runPc = "finally"
               ELSE /\ runPc \in {"transmit", "sleep"}
                    /\ light_vector = Normalize(SubtractValues(photoresistors)))

\* the read of the +X sensor failed in a tick, it keeps the full-scale value
\* of an earlier tick, the sensors after it were read, and the estimate was
\* calculated with the stale value
C14_Witness ==
    /\ runPc = "transmit"
    /\ \E r \in last_read :
         /\ ~r.ok
         /\ photoresistors[r.i].vector = <<1, 0, 0>>
         /\ photoresistors[r.i].value = FullScale
         /\ \E q \in last_read : q.i > r.i /\ q.ok /\ q.raw = FullScale
    /\ light_vector.v[1] = FullScale
    /\ IsUnit(light_vector)

\* C15 as stated: with a zero or unset interval the loop is single-shot: once
\* a tick has stored its estimate, no further tick starts.
C15_Original ==
    [][(runPc = "while" /\ light_vector.kind = "array") => runPc' # "tick"]_vars

\* C15 amended: a zero or unset interval only removes the pause between
\* ticks: with an unset interval the loop never sleeps, with a zero interval it
\* sleeps for zero seconds, and in both cases the while test starts another
\* tick whenever the stop event is not set; only the stop event (or an error)
\* ends the loop.
C15_ZeroOrUnsetIntervalKeepsTicking ==
    /\ [](read_interval = NoInterval => runPc # "sleep")
    /\ [][(runPc = "sleep" /\ runPc' # runPc) => runPc' = "while"]_vars
    /\ [][(runPc = "while" /\ runPc' # runPc) =>
             runPc' = IF stop_event THEN "finally" ELSE "tick"]_vars
    /\ [][(runPc \in {"post", "post_failed"} /\ runPc' \notin {"post", "post_failed"}) =>
             runPc' = IF read_interval = NoInterval THEN "while" ELSE "sleep"]_vars

\* with an unset interval a second tick has started after one that stored
\* an estimate and published it
C15_Witness ==
    /\ read_interval = NoInterval
    /\ runPc = "tick"
    /\ IsUnit(light_vector)
    /\ ~stop_event

\* a normalized value, kept in units of 1/4095, in the unit the voltages are kept in
NormalizedInVoltageUnit(value) == 10 * value

\* C21 as stated: the live request body carries, for every sensor, the
\* sensor's stored normalized value.
C21_Original ==
    (runPc = "post" /\ data.kind = "live") =>
        \A i \in 1..Len(photoresistors) :
            data.sensors[i].value = NormalizedInVoltageUnit(photoresistors[i].value)

\* C21 amended: the live request body carries the current estimate and, for
\* every sensor, its colour, its mount vector and its stored voltage as the
\* read step of the same tick left it: 1.8 * raw/4095 of the code just read,
\* or the voltage kept from before when that read failed.
C21_LivePublishCarriesVoltages ==
    /\ [][(runPc = "transmit" /\ runPc' = "post") =>
            /\ {r.i : r \in last_read} = 1..Len(photoresistors)
            /\ Len(data'.sensors) = Len(photoresistors)
            /\ \A r \in last_read :
                 data'.sensors[r.i].value =
                    IF r.ok THEN r.raw * RefVoltageTenths
                    ELSE photoresistors[r.i].value_voltage]_vars
    /\ [](runPc = "post" =>
            /\ data.kind = "live"
            /\ data.light_vector = light_vector
            /\ light_vector.kind = "array"
            /\ \A i \in 1..Len(photoresistors) :
                 /\ data.sensors[i].value = photoresistors[i].value_voltage
                 /\ data.sensors[i].color = photoresistors[i].color
                 /\ data.sensors[i].vector = photoresistors[i].vector)

\* a live body is about to be posted that carries a unit estimate, 1.8 V for
\* a sensor read at full scale and the constructor's -1 for a sensor whose
\* reads have all failed
C21_Witness ==
    /\ runPc = "post"
    /\ data.kind = "live"
    /\ IsUnit(data.light_vector)
    /\ \E i \in 1..Len(data.sensors) : data.sensors[i].value = FullScale * RefVoltageTenths
    /\ \E i \in 1..Len(data.sensors) : data.sensors[i].value = -(10 * FullScale)

\* C22 as stated: in every state each sensor's stored voltage is its stored
\* normalized value times 1.8.
C22_Original ==
    \A i \in 1..Len(photoresistors) :
        photoresistors[i].value_voltage = photoresistors[i].value * RefVoltageTenths

ShutdownPublished ==
    print_plot_app /\ runPc \in {"post_shutdown", "post_shutdown_failed", "ended"}

\* C22 amended: a sensor's stored voltage is its stored normalized value
\* times 1.8 from its first successful read until the shutdown publish.  Before
\* the first successful read both are the constructor's -1.  The shutdown
\* publish sets the normalized value to 0 and leaves the voltage as it was.
C22_VoltageFollowsValueBetweenReadAndShutdown ==
    /\ [](\A i \in 1..Len(photoresistors) :
            IF ShutdownPublished
            THEN photoresistors[i].value = 0
            ELSE \/ /\ photoresistors[i].value = -FullScale
                    /\ photoresistors[i].value_voltage = -(10 * FullScale)
                 \/ photoresistors[i].value_voltage =
                       photoresistors[i].value * RefVoltageTenths)
    /\ [][(runPc = "finally" /\ runPc' # runPc) =>
            \A i \in 1..Len(photoresistors) :
                photoresistors'[i].value_voltage = photoresistors[i].value_voltage]_vars

\* after the shutdown publish one sensor holds value 0 with the 1.8 V of its
\* last read and another holds value 0 with the constructor's -1 V
C22_Witness ==
    /\ runPc = "ended"
    /\ print_plot_app
    /\ AllValuesZero
    /\ \E i \in 1..Len(photoresistors) :
          photoresistors[i].value_voltage = FullScale * RefVoltageTenths
    /\ \E i \in 1..Len(photoresistors) :
          photoresistors[i].value_voltage = -(10 * FullScale)

----------------------------------------------------------------------------
(* Claims about Photoresistor.read_sensor_value (SpecSensor) *)

InUnitRange(value) == 0 <= value /\ value <= FullScale

\* C12 as stated: the stored normalized value of every Photoresistor is in
\* [0,1] in every state, also before the first read and after a failed read.
C12_Original ==
    \A i \in 1..Len(photoresistors) : InUnitRange(photoresistors[i].value)

\* C12 amended: the stored normalized value is the sentinel -1 from
\* construction; only a successful read changes it, to raw/4095 without
\* clamping, which is in [0,1] exactly when 0 <= raw <= 4095; a failed read
\* keeps the stored value and voltage.
C12_SentinelUntilReadThenRawRatio ==
    /\ \A i \in 1..Len(photoresistors) : photoresistors[i].value = -FullScale
    /\ [][\A i \in 1..Len(photoresistors) :
            photoresistors'[i].value # photoresistors[i].value
               => \E r \in last_read' : r.i = i /\ r.ok]_vars
    /\ [][\A r \in last_read' :
            IF r.ok
            THEN /\ photoresistors'[r.i].value = r.raw
                 /\ InUnitRange(photoresistors'[r.i].value) <=> InUnitRange(r.raw)
            ELSE photoresistors'[r.i] = photoresistors[r.i]]_vars

\* a sensor holds a value in [0,1] from an earlier read after its last read
\* failed, while another sensor still holds the sentinel
C12_Witness ==
    /\ \E r \in last_read : ~r.ok /\ photoresistors[r.i].value = FullScale
    /\ \E j \in 1..Len(photoresistors) : photoresistors[j].value = -FullScale

Clamp(raw) == IF raw < 0 THEN 0 ELSE IF raw > FullScale THEN FullScale ELSE raw

\* C13 as stated: a successful read stores raw/4095 clamped into [0,1]: a raw
\* code below 0 gives 0 and a raw code above 4095 gives 1.
C13_Original ==
    \A r \in last_read : r.ok => photoresistors[r.i].value = Clamp(r.raw)

----------------------------------------------------------------------------
(* Claims about the estimators (SpecEstimator) *)

\* the stored value of the sensor mounted on a face, 0 when none is
FaceValue(vector) ==
    IF \E i \in 1..Len(photoresistors) : photoresistors[i].vector = vector
    THEN photoresistors[CHOOSE i \in 1..Len(photoresistors) :
                           photoresistors[i].vector = vector].value
    ELSE 0

XPos == <<1, 0, 0>>
XNeg == <<-1, 0, 0>>
YPos == <<0, 1, 0>>
YNeg == <<0, -1, 0>>
ZPos == <<0, 0, 1>>
ZNeg == <<0, 0, -1>>

AxisMax(pos, neg) ==
    LET m == IF FaceValue(pos) >= FaceValue(neg) THEN FaceValue(pos) ELSE FaceValue(neg)
    IN IF FaceValue(pos) >= FaceValue(neg) THEN m ELSE -m

\* C18: what calc_light_vector_by_max_values gives: per axis the larger of
\* the two sides' values (a missing side is 0), positive when the + side is
\* greater than or equal to the - side and negated otherwise; the call raises
\* exactly when this vector has zero magnitude and else returns it divided by
\* its Euclidean norm.
C18_StrategyB ==
    sun_vector # NoResult =>
        LET S == <<AxisMax(XPos, XNeg), AxisMax(YPos, YNeg), AxisMax(ZPos, ZNeg)>>
        IN IF S = <<0, 0, 0>>
           THEN sun_vector.raised
           ELSE /\ ~sun_vector.raised
                /\ sun_vector.vector.kind = "array"
                /\ sun_vector.vector.v = S
                /\ sun_vector.vector.n2 = S[1] * S[1] + S[2] * S[2] + S[3] * S[3]
                /\ IsUnit(sun_vector.vector)

\* {+X: 0.8, -X: 0.2, +Y: 0.5, -Y: 0.5, +Z: 0, -Z: 1.0} gave (0.8, 0.5, -1.0)
\* before normalization
C18_Witness ==
    /\ FaceValue(XPos) = 3276 /\ FaceValue(XNeg) = 819
    /\ FaceValue(YPos) = 2048 /\ FaceValue(YNeg) = 2048
    /\ FaceValue(ZPos) = 0 /\ FaceValue(ZNeg) = FullScale
    /\ Len(photoresistors) = 6
    /\ ~sun_vector.raised
    /\ sun_vector.vector.v = <<3276, 2048, -FullScale>>

\* C19: an estimate stored by calc_light_vector is the vector of the per-axis
\* differences value(+axis) - value(-axis), a face without sensor counting 0,
\* divided by that vector's Euclidean norm; with +X at 1 and every other
\* sensor at 0 it is (1, 0, 0).
C19_StrategyA ==
    light_vector.kind = "array" =>
        LET diff == <<FaceValue(XPos) - FaceValue(XNeg),
                      FaceValue(YPos) - FaceValue(YNeg),
                      FaceValue(ZPos) - FaceValue(ZNeg)>>
        IN /\ light_vector.v = diff
           /\ light_vector.n2 = diff[1] * diff[1] + diff[2] * diff[2] + diff[3] * diff[3]
           /\ (\A i \in 1..Len(photoresistors) :
                  photoresistors[i].value = IF photoresistors[i].vector = XPos
                                            THEN FullScale ELSE 0)
                 => (light_vector.v = <<FullScale, 0, 0>> /\ light_vector.n2 = FullScale * FullScale)

\* the five shipped sensors, +X at 1 and the others at 0, gave (1, 0, 0)
C19_Witness ==
    /\ Len(photoresistors) = 5
    /\ \A i \in 1..Len(photoresistors) :
          photoresistors[i].value = IF photoresistors[i].vector = XPos THEN FullScale ELSE 0
    /\ light_vector = [kind |-> "array", v |-> <<FullScale, 0, 0>>, n2 |-> FullScale * FullScale]

----------------------------------------------------------------------------
(* Claims about concurrent construction (SpecConcurrent) *)

\* C20 as stated: of two concurrent validate calls for the same channel, or
\* for the same mount vector, at most one returns without raising.
C20_Original ==
    \A c, d \in Callers :
        (c # d /\ callers[c].pc = "returned" /\ callers[d].pc = "returned")
            => /\ callers[c].name # callers[d].name
               /\ callers[c].vector # callers[d].vector

----------------------------------------------------------------------------
(* Claims about constructing sensor sets (SpecConstruct) *)

\* C23: no construction removes a registry entry; a construction that
\* fails at its k-th sensor leaves the k-1 sensors before it registered; and a
\* construction whose list names a channel or a mount vector that is
\* registered, by a set built earlier or by the first sensors of a failed
\* construction, is rejected.
C23_RegistryOnlyGrows ==
    [][last_construct' # last_construct =>
         LET c == last_construct' IN
         /\ used_channels \subseteq used_channels'
         /\ used_vectors \subseteq used_vectors'
         /\ used_collors \subseteq used_collors'
         /\ c.raised <=> c.built < Len(c.sensors)
         /\ \A i \in 1..c.built :
               /\ c.sensors[i].pin_key \in used_channels'
               /\ c.sensors[i].vector \in used_vectors'
         /\ (\E i \in 1..Len(c.sensors) :
                \/ c.sensors[i].pin_key \in used_channels
                \/ c.sensors[i].vector \in used_vectors) => c.raised]_vars

\* a construction failed at its second sensor for a channel that is not
\* allowed, and its first sensor is registered although no sensor set holds it
C23_Witness ==
    /\ last_construct.raised
    /\ last_construct.built = 1
    /\ last_construct.sensors[2].pin_key \notin ALLOWED_NAMES
    /\ last_construct.sensors[1].pin_key \in used_channels
    /\ \A i \in 1..Len(photoresistors) :
          photoresistors[i].vector # last_construct.sensors[1].vector

====
